---- MODULE Spec2Model ----
(***************************************************************************)
(* rattle/compile.py: the template compiler (TokenStream, parse_expr,      *)
(* Template.parse) and the renderer (Template.render).                     *)
(*                                                                         *)
(* Text is a sequence of one-character strings, so that slicing, the '.'   *)
(* test of _make_number, int(), float() and str() are computed and not     *)
(* assumed.  The lexer (rattle/tokenise.py) is outside this file: a        *)
(* template is given as the span sequence it yields, and the content of a  *)
(* VAR or BLOCK span as the lexemes tokenize.generate_tokens splits it     *)
(* into; the scanner's bracket counting and end-of-input behaviour are     *)
(* modelled in ScanNext.                                                   *)
(***************************************************************************)
EXTENDS Integers, Sequences, FiniteSets, TLC

VARIABLES
    source,   \* Template.source, as the span sequence tokenise(source) yields
    pc,       \* "parse" (inside Template.__init__), "ready", "failed"
    idx,      \* position of Template.parse's loop in the span sequence
    steps,    \* the local list `steps` of Template.parse
    content,  \* content of the VAR span being parsed
    stream,   \* the TokenStream of that span: [stack, scan]
    frames,   \* activations of parse_expr, innermost last: [at, code]
    tok,      \* the local `tok`: the token the last next(stream) returned
    exc,      \* the exception that ended __init__, or NoExc
    func,     \* Template.func: the compiled plan, or NoFunc
    calls     \* the render calls made so far: [context, ret]

vars == <<source, pc, idx, steps, content, stream, frames, tok, exc, func, calls>>

----------------------------------------------------------------------------
(* Bounds *)

\* longest VAR content enumerated over the full token alphabet
MaxToks == 3
\* longest VAR content enumerated over the core alphabet (name . [ ])
MaxDeepToks == 7
\* longest span sequence of a template
MaxSpans == 2
\* number of render calls on one Template
MaxRenders == 2

----------------------------------------------------------------------------
(* Text helpers *)

Digits == <<"0", "1", "2", "3", "4", "5", "6", "7", "8", "9">>

IsDigit(c) == \E d \in 1..10 : Digits[d] = c

DigitVal(c) == (CHOOSE d \in 1..10 : Digits[d] = c) - 1

AllDigits(s) == \A k \in 1..Len(s) : IsDigit(s[k])

RECURSIVE Concat(_)
Concat(ss) == IF ss = <<>> THEN <<>> ELSE Head(ss) \o Concat(Tail(ss))

RECURSIVE JoinWith(_, _)
JoinWith(sep, ss) ==
    IF ss = <<>> THEN <<>>
    ELSE IF Len(ss) = 1 THEN ss[1]
    ELSE ss[1] \o sep \o JoinWith(sep, Tail(ss))

----------------------------------------------------------------------------
(* Tokens *)

Tok(type, string) == [type |-> type, string |-> string]

NoTok == Tok("NONE", <<>>)

ENDMARKER == Tok("ENDMARKER", <<>>)

EXACT_TOKEN_TYPES ==
    (<<"(">> :> "LPAR") @@ (<<")">> :> "RPAR") @@ (<<"[">> :> "LSQB") @@
    (<<"]">> :> "RSQB") @@ (<<":">> :> "COLON") @@ (<<",">> :> "COMMA") @@
    (<<";">> :> "SEMI") @@ (<<"+">> :> "PLUS") @@ (<<"-">> :> "MINUS") @@
    (<<"*">> :> "STAR") @@ (<<"/">> :> "SLASH") @@ (<<"|">> :> "VBAR") @@
    (<<"&">> :> "AMPER") @@ (<<"<">> :> "LESS") @@ (<<">">> :> "GREATER") @@
    (<<"=">> :> "EQUAL") @@ (<<".">> :> "DOT") @@ (<<"%">> :> "PERCENT") @@
    (<<"{">> :> "LBRACE") @@ (<<"}">> :> "RBRACE") @@
    (<<"=", "=">> :> "EQEQUAL") @@ (<<"!", "=">> :> "NOTEQUAL") @@
    (<<"<", "=">> :> "LESSEQUAL") @@ (<<">", "=">> :> "GREATEREQUAL") @@
    (<<"~">> :> "TILDE") @@ (<<"^">> :> "CIRCUMFLEX") @@
    (<<"<", "<">> :> "LEFTSHIFT") @@ (<<">", ">">> :> "RIGHTSHIFT") @@
    (<<"*", "*">> :> "DOUBLESTAR") @@ (<<"+", "=">> :> "PLUSEQUAL") @@
    (<<"-", "=">> :> "MINEQUAL") @@ (<<"*", "=">> :> "STAREQUAL") @@
    (<<"/", "=">> :> "SLASHEQUAL") @@ (<<"%", "=">> :> "PERCENTEQUAL") @@
    (<<"&", "=">> :> "AMPEREQUAL") @@ (<<"|", "=">> :> "VBAREQUAL") @@
    (<<"^", "=">> :> "CIRCUMFLEXEQUAL") @@
    (<<"<", "<", "=">> :> "LEFTSHIFTEQUAL") @@
    (<<">", ">", "=">> :> "RIGHTSHIFTEQUAL") @@
    (<<"*", "*", "=">> :> "DOUBLESTAREQUAL") @@
    (<<"/", "/">> :> "DOUBLESLASH") @@
    (<<"/", "/", "=">> :> "DOUBLESLASHEQUAL") @@ (<<"@">> :> "AT")

\* TokenInfo.exact_type
ExactType(t) ==
    IF t.type = "OP" /\ t.string \in DOMAIN EXACT_TOKEN_TYPES
    THEN EXACT_TOKEN_TYPES[t.string]
    ELSE t.type

----------------------------------------------------------------------------
(* tokenize.generate_tokens over one content string.  scan.pos is the      *)
(* index of the next lexeme, scan.parenlev the scanner's open-bracket      *)
(* count, scan.done is set once ENDMARKER has been yielded.                *)

NewScan == [pos |-> 1, parenlev |-> 0, done |-> FALSE]

ParenDelta(t) ==
    IF t.type = "OP" /\ t.string \in {<<"(">>, <<"[">>, <<"{">>} THEN 1
    ELSE IF t.type = "OP" /\ t.string \in {<<")">>, <<"]">>, <<"}">>} THEN -1
    ELSE 0

\* next(self.stream): a lexeme; at the end of the input ENDMARKER when no
\* bracket is open, TokenError("EOF in multi-line statement") otherwise;
\* StopIteration once the generator is exhausted.
ScanNext(cont, scan) ==
    IF scan.done
    THEN [raised |-> "StopIteration", tok |-> NoTok, scan |-> scan]
    ELSE IF scan.pos <= Len(cont)
    THEN [raised |-> "none", tok |-> cont[scan.pos],
          scan |-> [scan EXCEPT !.pos = @ + 1,
                                !.parenlev = @ + ParenDelta(cont[scan.pos])]]
    ELSE IF scan.parenlev = 0
    THEN [raised |-> "none", tok |-> ENDMARKER,
          scan |-> [scan EXCEPT !.done = TRUE]]
    ELSE [raised |-> "TokenError", tok |-> NoTok,
          scan |-> [scan EXCEPT !.done = TRUE]]

\* TokenStream.__init__
NewStream == [stack |-> <<>>, scan |-> NewScan]

\* faulty variant of TokenStream.next: the pushback stack is never consulted
StreamNextFresh(cont, s) ==
    LET r == ScanNext(cont, s.scan)
    IN  [raised |-> r.raised, tok |-> r.tok, stream |-> [s EXCEPT !.scan = r.scan]]

\* TokenStream.next: pop the pushback stack, else pull from the scanner
StreamNext(cont, s) ==
    IF s.stack # <<>>
    THEN [raised |-> "none", tok |-> s.stack[Len(s.stack)],
          stream |-> [s EXCEPT !.stack = SubSeq(@, 1, Len(@) - 1)]]
    ELSE LET r == ScanNext(cont, s.scan)
         IN  [raised |-> r.raised, tok |-> r.tok,
              stream |-> [s EXCEPT !.scan = r.scan]]

\* TokenStream.push
StreamPush(s, t) == [s EXCEPT !.stack = Append(@, t)]

----------------------------------------------------------------------------
(* Values of the generated program *)

IntV(n) == [t |-> "int", n |-> n]
FloatV(w, f) == [t |-> "float", w |-> w, f |-> f]
StrV(s) == [t |-> "str", s |-> s]
ListV(xs) == [t |-> "list", xs |-> xs]
DictV(kv) == [t |-> "dict", kv |-> kv]
ObjV(attrs) == [t |-> "obj", attrs |-> attrs]

RECURSIVE IntOf(_)
IntOf(s) == IF s = <<>> THEN 0
            ELSE IntOf(SubSeq(s, 1, Len(s) - 1)) * 10 + DigitVal(s[Len(s)])

RECURSIVE StripZeros(_)
StripZeros(s) ==
    IF Len(s) > 1 /\ s[Len(s)] = "0" THEN StripZeros(SubSeq(s, 1, Len(s) - 1))
    ELSE s

\* int(s) and float(s) for the literal forms the scanner's NUMBER tokens take
\* here: digits, digits '.' digits, and forms neither builtin accepts.
ParseInt(s) ==
    IF s # <<>> /\ AllDigits(s)
    THEN [raised |-> "none", v |-> IntV(IntOf(s))]
    ELSE [raised |-> "ValueError", v |-> IntV(0)]

ParseFloat(s) ==
    LET dot == CHOOSE k \in 1..Len(s) : s[k] = "." /\ \A j \in 1..(k - 1) : s[j] # "."
        w == SubSeq(s, 1, dot - 1)
        f == SubSeq(s, dot + 1, Len(s))
    IN  IF AllDigits(w) /\ AllDigits(f) /\ (w # <<>> \/ f # <<>>)
        THEN [raised |-> "none",
              v |-> FloatV(IntOf(w), IF f = <<>> THEN <<"0">> ELSE StripZeros(f))]
        ELSE [raised |-> "ValueError", v |-> IntV(0)]

----------------------------------------------------------------------------
(* AST nodes *)

Str(s) == [k |-> "Str", s |-> s]
Num(n) == [k |-> "Num", n |-> n]
Name(id) == [k |-> "Name", id |-> id]
Attribute(value, attr) == [k |-> "Attribute", value |-> value, attr |-> attr]
Subscript(value, slice) == [k |-> "Subscript", value |-> value, slice |-> slice]

\* _context_lookup: context[x]
ContextLookup(x) == Subscript(Name("context"), Str(x))

\* _make_number
MakeNumber(t) ==
    LET r == IF \E k \in 1..Len(t.string) : t.string[k] = "."
             THEN ParseFloat(t.string)
             ELSE ParseInt(t.string)
    IN  [raised |-> r.raised, code |-> Num(r.v)]

NoCode == Name("None")

\* faulty variant of _convert_name_or_literal: no check of the token's type
ConvertAcceptsAny(t) ==
    [raised |-> "none", code |-> ContextLookup(t.string)]

\* _convert_name_or_literal
ConvertNameOrLiteral(t) ==
    IF ExactType(t) = "STRING"
    THEN [raised |-> "none", code |-> Str(SubSeq(t.string, 2, Len(t.string) - 1))]
    ELSE IF ExactType(t) = "NUMBER" THEN MakeNumber(t)
    ELSE IF ExactType(t) = "NAME"
    THEN [raised |-> "none", code |-> ContextLookup(t.string)]
    ELSE [raised |-> "TemplateSyntaxError", code |-> NoCode]

----------------------------------------------------------------------------
(* Spans of the lexer, and the compiler's bookkeeping *)

\* a VAR or BLOCK span: token.content as the lexemes of the content string
Span(mode, cont) == [mode |-> mode, content |-> cont]

\* a TEXT or COMMENT span: token.content as text
TextSpan(mode, cont) == [mode |-> mode, text |-> cont]

Exc(type, msg, t) == [type |-> type, msg |-> msg, tok |-> t]

NoExc == Exc("none", "", NoTok)

NoFunc == [compiled |-> FALSE, elts |-> <<>>]

Frame(at, code) == [at |-> at, code |-> code]

Top(fr) == fr[Len(fr)]

SetTop(fr, f) == [fr EXCEPT ![Len(fr)] = f]

Pop(fr) == SubSeq(fr, 1, Len(fr) - 1)

\* token._position(code): the node with the span's position attached
Positioned(code, i) == [code |-> code, pos |-> i]

\* the message of the exception next(self.stream) raised
ScanMsg(raised) ==
    IF raised = "TokenError" THEN "EOF in multi-line statement" ELSE ""

\* parse_expr, line 136
WrapAttribute(code, attr) == Attribute(code, attr)

\* faulty variant of lines 139-143: value and slice exchanged
WrapSubscriptSwapped(code, lookup) == Subscript(lookup, code)

\* parse_expr, lines 139-143
WrapSubscript(code, lookup) == Subscript(code, lookup)

\* faulty variant of lines 150-152: the token is not pushed back
PushbackDropped(s, t) == s

\* parse_expr, lines 150-152: the token that is no trailer goes back
Pushback(s, t) == StreamPush(s, t)

\* `return code` of parse_expr: to the caller's line 139 when the call was
\* the nested one of line 138, else to _token_to_code and Template.parse
\* (lines 189, 199, 207-209).  Gives the frames, steps and idx that result.
ReturnCode(fr, st, i, code) ==
    IF Len(fr) > 1
    THEN [frames |-> SetTop(Pop(fr),
                            Frame("rsqb", WrapSubscript(fr[Len(fr) - 1].code, code))),
          steps |-> st, idx |-> i]
    ELSE [frames |-> <<>>, steps |-> Append(st, Positioned(code, i)), idx |-> i + 1]

\* an exception leaves Template.__init__: no Template, no func
Raise(e) == pc' = "failed" /\ exc' = e

----------------------------------------------------------------------------
(* Template._token_to_code, TOKEN_VAR: a new TokenStream, parse_expr called *)

BeginVar ==
    /\ pc = "parse" /\ frames = <<>> /\ idx <= Len(source)
    /\ source[idx].mode = "VAR"
    /\ content' = source[idx].content
    /\ stream' = NewStream
    /\ frames' = <<Frame("atom", NoCode)>>
    /\ UNCHANGED <<source, pc, idx, steps, tok, exc, func, calls>>

(* parse_expr, lines 125-126: the first token must be a literal or a name *)
ParseAtom ==
    /\ pc = "parse" /\ frames # <<>> /\ Top(frames).at = "atom"
    /\ LET r == StreamNext(content, stream)
           c == ConvertNameOrLiteral(r.tok)
       IN  /\ stream' = r.stream
           /\ tok' = IF r.raised = "none" THEN r.tok ELSE tok
           /\ IF r.raised # "none"
              THEN Raise(Exc(r.raised, ScanMsg(r.raised), NoTok)) /\ UNCHANGED frames
              ELSE IF c.raised # "none"
              THEN Raise(Exc(c.raised, "",
                             IF c.raised = "TemplateSyntaxError" THEN r.tok ELSE NoTok))
                   /\ UNCHANGED frames
              ELSE /\ frames' = SetTop(frames, Frame("loop", c.code))
                   /\ UNCHANGED <<pc, exc>>
    /\ UNCHANGED <<source, idx, steps, content, func, calls>>

(* parse_expr, lines 128-131, 137-138, 150-153: one iteration of the       *)
(* trailer loop up to its dispatch, and the return that ends the loop      *)
ParseTrailer ==
    /\ pc = "parse" /\ frames # <<>> /\ Top(frames).at = "loop"
    /\ LET r == StreamNext(content, stream)
           code == Top(frames).code
           ret == ReturnCode(frames, steps, idx, code)
       IN  /\ tok' = IF r.raised = "none" THEN r.tok ELSE tok
           /\ IF r.raised = "StopIteration" \/
                 (r.raised = "none" /\ ExactType(r.tok) = "ENDMARKER")
              THEN \* the for loop is over, or break on the end-marker
                   /\ stream' = r.stream
                   /\ frames' = ret.frames /\ steps' = ret.steps /\ idx' = ret.idx
                   /\ UNCHANGED <<pc, exc>>
              ELSE IF r.raised # "none"
              THEN /\ stream' = r.stream
                   /\ Raise(Exc(r.raised, ScanMsg(r.raised), NoTok))
                   /\ UNCHANGED <<frames, steps, idx>>
              ELSE IF ExactType(r.tok) = "DOT"
              THEN /\ stream' = r.stream
                   /\ frames' = SetTop(frames, Frame("dot", code))
                   /\ UNCHANGED <<pc, exc, steps, idx>>
              ELSE IF ExactType(r.tok) = "LSQB"
              THEN /\ stream' = r.stream
                   /\ frames' = Append(SetTop(frames, Frame("sub", code)),
                                       Frame("atom", NoCode))
                   /\ UNCHANGED <<pc, exc, steps, idx>>
              ELSE /\ stream' = Pushback(r.stream, r.tok)
                   /\ frames' = ret.frames /\ steps' = ret.steps /\ idx' = ret.idx
                   /\ UNCHANGED <<pc, exc>>
    /\ UNCHANGED <<source, content, func, calls>>

(* parse_expr, lines 132-136: the token after '.'.  Line 134 names         *)
(* `content`, which is bound neither in parse_expr nor in the module:      *)
(* evaluating the raise statement's argument raises NameError.             *)
ParseAttr ==
    /\ pc = "parse" /\ frames # <<>> /\ Top(frames).at = "dot"
    /\ LET r == StreamNext(content, stream)
       IN  /\ stream' = r.stream
           /\ tok' = IF r.raised = "none" THEN r.tok ELSE tok
           /\ IF r.raised # "none"
              THEN Raise(Exc(r.raised, ScanMsg(r.raised), NoTok)) /\ UNCHANGED frames
              ELSE IF ExactType(r.tok) # "NAME"
              THEN Raise(Exc("NameError", "name 'content' is not defined", NoTok))
                   /\ UNCHANGED frames
              ELSE /\ frames' = SetTop(frames,
                          Frame("loop", WrapAttribute(Top(frames).code, r.tok.string)))
                   /\ UNCHANGED <<pc, exc>>
    /\ UNCHANGED <<source, idx, steps, content, func, calls>>

(* parse_expr, lines 144-146: the token after the nested expression *)
ParseRsqb ==
    /\ pc = "parse" /\ frames # <<>> /\ Top(frames).at = "rsqb"
    /\ LET r == StreamNext(content, stream)
       IN  /\ stream' = r.stream
           /\ tok' = IF r.raised = "none" THEN r.tok ELSE tok
           /\ IF r.raised # "none"
              THEN Raise(Exc(r.raised, ScanMsg(r.raised), NoTok)) /\ UNCHANGED frames
              ELSE IF ExactType(r.tok) # "RSQB"
              THEN Raise(Exc("TemplateSyntaxError", "Expected ], found", r.tok))
                   /\ UNCHANGED frames
              ELSE /\ frames' = SetTop(frames, Frame("loop", Top(frames).code))
                   /\ UNCHANGED <<pc, exc>>
    /\ UNCHANGED <<source, idx, steps, content, func, calls>>

(* Template.parse, lines 212-232 and __init__, lines 178-179: the spans    *)
(* are exhausted, the module `result = [str(x) for x in steps]` is         *)
(* compiled into self.func                                                 *)
Finish ==
    /\ pc = "parse" /\ frames = <<>> /\ idx > Len(source)
    /\ func' = [compiled |-> TRUE, elts |-> steps]
    /\ pc' = "ready"
    /\ UNCHANGED <<source, idx, steps, content, stream, frames, tok, exc, calls>>

----------------------------------------------------------------------------
(* parse_block_tag: the tag name, then NAME [token] pairs; nothing is kept. *)
(* The result is the exception it raises, or NoExc.                        *)

RECURSIVE BlockArgs(_, _)
BlockArgs(cont, parts) ==
    LET r == StreamNext(cont, parts)
    IN  IF r.raised = "StopIteration" THEN "none"
        ELSE IF r.raised # "none" THEN r.raised
        ELSE IF ExactType(r.tok) # "NAME" THEN "none"
        ELSE LET v == StreamNext(cont, r.stream)
             IN  IF v.raised # "none" THEN v.raised
                 ELSE BlockArgs(cont, v.stream)

ParseBlockTag(cont) ==
    LET r == StreamNext(cont, NewStream)
    IN  IF r.raised # "none" THEN Exc(r.raised, ScanMsg(r.raised), NoTok)
        ELSE IF ExactType(r.tok) # "NAME"
        THEN Exc("TemplateSyntaxError", "Expected NAME: found", r.tok)
        ELSE LET a == BlockArgs(cont, r.stream)
             IN  IF a = "none" THEN NoExc ELSE Exc(a, ScanMsg(a), NoTok)

\* _token_to_code, TOKEN_TEXT: ast.Str(s=token.content)
TextCode(cont) == Str(cont)

(* Template.parse's loop on a TEXT span: lines 184-185, 198-199, 207-209 *)
EmitText ==
    /\ pc = "parse" /\ frames = <<>> /\ idx <= Len(source)
    /\ source[idx].mode = "TEXT"
    /\ steps' = Append(steps, Positioned(TextCode(source[idx].text), idx))
    /\ idx' = idx + 1
    /\ UNCHANGED <<source, pc, content, stream, frames, tok, exc, func, calls>>

(* ... on a COMMENT span: lines 194-196, code stays None *)
SkipComment ==
    /\ pc = "parse" /\ frames = <<>> /\ idx <= Len(source)
    /\ source[idx].mode = "COMMENT"
    /\ idx' = idx + 1
    /\ UNCHANGED <<source, pc, steps, content, stream, frames, tok, exc, func, calls>>

(* ... on a BLOCK span: lines 190-192, code stays None unless it raises *)
BlockTag ==
    /\ pc = "parse" /\ frames = <<>> /\ idx <= Len(source)
    /\ source[idx].mode = "BLOCK"
    /\ LET e == ParseBlockTag(source[idx].content)
       IN  IF e = NoExc
           THEN idx' = idx + 1 /\ UNCHANGED <<pc, exc>>
           ELSE Raise(e) /\ UNCHANGED idx
    /\ UNCHANGED <<source, steps, content, stream, frames, tok, func, calls>>

----------------------------------------------------------------------------
(* The generated program: evaluation of the nodes, str(), and render *)

RECURSIVE IntStr(_)
IntStr(n) == IF n < 10 THEN <<Digits[n + 1]>>
             ELSE IntStr(n \div 10) \o <<Digits[(n % 10) + 1]>>

RECURSIVE Repr(_)
Repr(v) ==
    IF v.t = "int" THEN IntStr(v.n)
    ELSE IF v.t = "float" THEN IntStr(v.w) \o <<".">> \o v.f
    ELSE IF v.t = "str" THEN <<"'">> \o v.s \o <<"'">>
    ELSE IF v.t = "list"
    THEN <<"[">> \o JoinWith(<<",", " ">>, [k \in 1..Len(v.xs) |-> Repr(v.xs[k])])
         \o <<"]">>
    ELSE IF v.t = "dict"
    THEN <<"{">> \o JoinWith(<<",", " ">>,
                    [k \in 1..Len(v.kv) |->
                        Repr(v.kv[k][1]) \o <<":", " ">> \o Repr(v.kv[k][2])])
         \o <<"}">>
    ELSE <<"<", "o", "b", "j", ">">>

\* str(x)
StrOf(v) == IF v.t = "str" THEN v.s ELSE Repr(v)

NoVal == IntV(0)

Val(v) == [raised |-> "none", origin |-> "", v |-> v]

Err(type, origin) == [raised |-> type, origin |-> origin, v |-> NoVal]

\* faulty variant of value.attr: a mapping's key is taken for an attribute
GetAttrOrKey(base, attr) ==
    IF base.t = "obj" /\ \E k \in 1..Len(base.attrs) : base.attrs[k][1] = attr
    THEN Val(base.attrs[CHOOSE k \in 1..Len(base.attrs) : base.attrs[k][1] = attr][2])
    ELSE IF base.t = "dict" /\ \E k \in 1..Len(base.kv) : base.kv[k][1] = StrV(attr)
    THEN Val(base.kv[CHOOSE k \in 1..Len(base.kv) : base.kv[k][1] = StrV(attr)][2])
    ELSE Err("AttributeError", "attribute")

\* value.attr
GetAttr(base, attr) ==
    IF base.t = "obj" /\ \E k \in 1..Len(base.attrs) : base.attrs[k][1] = attr
    THEN Val(base.attrs[CHOOSE k \in 1..Len(base.attrs) : base.attrs[k][1] = attr][2])
    ELSE Err("AttributeError", "attribute")

\* value[key]
GetItem(base, key, origin) ==
    IF base.t = "dict"
    THEN IF key.t \in {"list", "dict"} THEN Err("TypeError", origin)
         ELSE IF \E k \in 1..Len(base.kv) : base.kv[k][1] = key
         THEN Val(base.kv[CHOOSE k \in 1..Len(base.kv) : base.kv[k][1] = key][2])
         ELSE Err("KeyError", origin)
    ELSE IF base.t = "list"
    THEN IF key.t # "int" THEN Err("TypeError", origin)
         ELSE IF key.n < Len(base.xs) THEN Val(base.xs[key.n + 1])
         ELSE Err("IndexError", origin)
    ELSE IF base.t = "str"
    THEN IF key.t # "int" THEN Err("TypeError", origin)
         ELSE IF key.n < Len(base.s) THEN Val(StrV(<<base.s[key.n + 1]>>))
         ELSE Err("IndexError", origin)
    ELSE Err("TypeError", origin)

\* evaluation of one node in the namespace ns of exec
RECURSIVE Eval(_, _)
Eval(n, ns) ==
    IF n.k = "Str" THEN Val(StrV(n.s))
    ELSE IF n.k = "Num" THEN Val(n.n)
    ELSE IF n.k = "Name"
    THEN IF n.id \in DOMAIN ns THEN Val(ns[n.id]) ELSE Err("NameError", "name")
    ELSE IF n.k = "Attribute"
    THEN LET b == Eval(n.value, ns)
         IN  IF b.raised # "none" THEN b ELSE GetAttr(b.v, n.attr)
    ELSE LET b == Eval(n.value, ns)
             s == Eval(n.slice, ns)
         IN  IF b.raised # "none" THEN b
             ELSE IF s.raised # "none" THEN s
             ELSE GetItem(b.v, s.v, IF n.value = Name("context") THEN "context"
                                    ELSE "subscript")

\* faulty variant of the list display: an element that raises is left out
RECURSIVE EvalEltsSkipping(_, _)
EvalEltsSkipping(elts, ns) ==
    IF elts = <<>> THEN [raised |-> "none", origin |-> "", vals |-> <<>>]
    ELSE LET h == Eval(elts[1].code, ns)
             r == EvalEltsSkipping(Tail(elts), ns)
         IN  IF h.raised # "none" THEN r
             ELSE [r EXCEPT !.vals = <<h.v>> \o @]

\* the list display [e1, ..., en] of the generated module: the elements are
\* evaluated in order, and the first exception ends the evaluation
RECURSIVE EvalElts(_, _)
EvalElts(elts, ns) ==
    IF elts = <<>> THEN [raised |-> "none", origin |-> "", vals |-> <<>>]
    ELSE LET h == Eval(elts[1].code, ns)
         IN  IF h.raised # "none"
             THEN [raised |-> h.raised, origin |-> h.origin, vals |-> <<>>]
             ELSE LET r == EvalElts(Tail(elts), ns)
                  IN  IF r.raised # "none" THEN r
                      ELSE [r EXCEPT !.vals = <<h.v>> \o @]

\* faulty variant of the comprehension: the results in reverse order
ResultListReversed(vals) == [k \in 1..Len(vals) |-> StrOf(vals[Len(vals) + 1 - k])]

\* result = [str(x) for x in [...]]
ResultList(vals) == [k \in 1..Len(vals) |-> StrOf(vals[k])]

\* faulty variant of line 235: the namespace of the first call is kept
RenderNamespaceKept(before, context) ==
    IF before = <<>> THEN [context |-> context]
    ELSE [context |-> before[1].context]

\* render, line 235: ctx = {'context': context}, a new namespace whatever
\* the calls made before
RenderNamespace(before, context) == [context |-> context]

\* render, lines 236-237: exec(self.func, ctx), then u''.join(ctx['result']).
\* What the call returns: the output, or the exception and no output.
RenderCall(f, before, context) ==
    LET ns == RenderNamespace(before, context)
        r == EvalElts(f.elts, ns)
    IN  IF r.raised # "none"
        THEN [raised |-> r.raised, origin |-> r.origin]
        ELSE [raised |-> "none", out |-> Concat(ResultList(r.vals))]

(* Template.render(context) *)
Render(context) ==
    /\ pc = "ready" /\ Len(calls) < MaxRenders
    /\ calls' = Append(calls, [context |-> context,
                               ret |-> RenderCall(func, calls, context)])
    /\ UNCHANGED <<source, pc, idx, steps, content, stream, frames, tok, exc, func>>

----------------------------------------------------------------------------
(* Inputs of the expression parser *)

NameTok(s) == Tok("NAME", s)
NumberTok(s) == Tok("NUMBER", s)
StringTok(s) == Tok("STRING", s)
OpTok(s) == Tok("OP", s)

TA == NameTok(<<"a">>)
TB == NameTok(<<"b">>)
TDot == OpTok(<<".">>)
TLsqb == OpTok(<<"[">>)
TRsqb == OpTok(<<"]">>)
TZero == NumberTok(<<"0">>)
TFloat == NumberTok(<<"3", ".", "5">>)
TExp == NumberTok(<<"1", "e", "5">>)
TStr == StringTok(<<"'", "x", "'">>)

FullAlphabet == {TA, TB, TZero, TFloat, TExp, TStr, TDot, TLsqb, TRsqb}

CoreAlphabet == {TA, TDot, TLsqb, TRsqb}

SeqsUpTo(S, n) == UNION {[1..k -> S] : k \in 0..n}

Contents == SeqsUpTo(FullAlphabet, MaxToks) \cup SeqsUpTo(CoreAlphabet, MaxDeepToks)

(* Template.__init__ on a source that is one VAR span *)
InitParse ==
    /\ source \in {<<Span("VAR", c)>> : c \in Contents}
    /\ pc = "parse"
    /\ idx = 1
    /\ steps = <<>>
    /\ content = <<>>
    /\ stream = NewStream
    /\ frames = <<>>
    /\ tok = NoTok
    /\ exc = NoExc
    /\ func = NoFunc
    /\ calls = <<>>

NextParse ==
    \/ BeginVar
    \/ ParseAtom
    \/ ParseTrailer
    \/ ParseAttr
    \/ ParseRsqb
    \/ Finish

SpecParse == InitParse /\ [][NextParse]_vars

----------------------------------------------------------------------------
(* The grammar of the specification, as a reference parser over a whole    *)
(* token sequence:  expr := atom trailer*,  atom := STRING | NUMBER | NAME, *)
(* trailer := '.' NAME | '[' expr ']'.  RefExpr(ts, i) parses the longest  *)
(* expression that starts at ts[i]: [ok, node, next].                      *)

IsAtomTok(t) == t.type \in {"STRING", "NUMBER", "NAME"}

IsOpTok(t, s) == t.type = "OP" /\ t.string = s

\* a NUMBER text made of digits with at most one decimal point
IsDecimalLiteral(s) ==
    /\ \A k \in 1..Len(s) : IsDigit(s[k]) \/ s[k] = "."
    /\ Cardinality({k \in 1..Len(s) : s[k] = "."}) <= 1
    /\ \E k \in 1..Len(s) : IsDigit(s[k])

DecimalNumbers(ts) ==
    \A k \in 1..Len(ts) : ts[k].type = "NUMBER" => IsDecimalLiteral(ts[k].string)

RefAtom(t) ==
    IF t.type = "STRING" THEN Str(SubSeq(t.string, 2, Len(t.string) - 1))
    ELSE IF t.type = "NAME" THEN Subscript(Name("context"), Str(t.string))
    ELSE IF \E k \in 1..Len(t.string) : t.string[k] = "."
    THEN Num(ParseFloat(t.string).v)
    ELSE Num(ParseInt(t.string).v)

RefFail == [ok |-> FALSE, node |-> NoCode, next |-> 0]

RECURSIVE RefExpr(_, _)
RECURSIVE RefTrailers(_, _, _)
RefExpr(ts, i) ==
    IF i <= Len(ts) /\ IsAtomTok(ts[i])
    THEN RefTrailers(ts, i + 1, RefAtom(ts[i]))
    ELSE RefFail

RefTrailers(ts, i, node) ==
    IF i <= Len(ts) /\ IsOpTok(ts[i], <<".">>)
    THEN IF i + 1 <= Len(ts) /\ ts[i + 1].type = "NAME"
         THEN RefTrailers(ts, i + 2, Attribute(node, ts[i + 1].string))
         ELSE RefFail
    ELSE IF i <= Len(ts) /\ IsOpTok(ts[i], <<"[">>)
    THEN LET key == RefExpr(ts, i + 1)
         IN  IF key.ok /\ key.next <= Len(ts) /\ IsOpTok(ts[key.next], <<"]">>)
             THEN RefTrailers(ts, key.next + 1, Subscript(node, key.node))
             ELSE RefFail
    ELSE [ok |-> TRUE, node |-> node, next |-> i]

\* the whole sequence is one expression of the grammar
Derivable(ts) == RefExpr(ts, 1).ok /\ RefExpr(ts, 1).next = Len(ts) + 1

\* an expression of the grammar, then a token that continues no trailer
ValidThenOther(ts) ==
    /\ RefExpr(ts, 1).ok /\ RefExpr(ts, 1).next <= Len(ts)
    /\ DecimalNumbers(SubSeq(ts, 1, RefExpr(ts, 1).next - 1))

\* nesting depth of a node along its index keys
RECURSIVE KeyDepth(_)
KeyDepth(n) ==
    IF n.k = "Subscript" /\ n.value.k # "Name" THEN 1 + KeyDepth(n.slice)
    ELSE IF n.k = "Attribute" THEN KeyDepth(n.value)
    ELSE 0

InIndex == \E k \in 1..Len(frames) : frames[k].at \in {"sub", "rsqb"}

----------------------------------------------------------------------------
(* Claims about the expression parser, under SpecParse *)

\* C4 (as claimed): whenever a '[' has been consumed and what follows the
\* nested expression is not ']' -- another token, or the content ending
\* before any ']' as in "a[" and "a[b" -- compilation fails with a
\* TemplateSyntaxError "Expected ], found ..." and with no other error.
C4_MissingRsqbIsSyntaxError ==
    (/\ pc = "failed" /\ InIndex
     /\ \/ Top(frames).at = "rsqb"
        \/ /\ Top(frames).at \in {"atom", "loop"}
           /\ stream.stack = <<>> /\ stream.scan.pos > Len(content))
    => (exc.type = "TemplateSyntaxError" /\ exc.msg = "Expected ], found")

\* C5 (as claimed): whenever the token read after a '.' trailer is not a
\* NAME (the end-marker included), compilation fails with a
\* TemplateSyntaxError that carries that token.
C5_DotNeedsNameSyntaxError ==
    (/\ pc = "failed" /\ frames # <<>> /\ Top(frames).at = "dot"
     /\ exc.type \notin {"TokenError", "StopIteration"})
    => (exc.type = "TemplateSyntaxError" /\ exc.tok = tok)

\* C6: at the top level and at every nesting depth, when the first token of
\* an expression is not STRING, NUMBER or NAME, the step that reads it ends
\* compilation with a TemplateSyntaxError carrying that token, and no
\* Template (no func) is produced.
C6_LeadingTokenRejected ==
    [][(/\ pc = "parse" /\ frames # <<>> /\ Top(frames).at = "atom"
        /\ StreamNext(content, stream).raised = "none"
        /\ ~IsAtomTok(StreamNext(content, stream).tok))
       => (/\ pc' = "failed"
           /\ exc' = Exc("TemplateSyntaxError", "", StreamNext(content, stream).tok)
           /\ func' = NoFunc)]_vars

C6_Witness ==
    /\ pc = "failed" /\ Len(frames) = 3 /\ Top(frames).at = "atom"
    /\ exc = Exc("TemplateSyntaxError", "", TRsqb)
    /\ func = NoFunc

\* C8: while compiling, the pushback buffer of the TokenStream never holds
\* more than one token, and a pending token is what the next read of the
\* stream returns, the scanner being left where it was.
C8_SingleSlotPushback ==
    /\ [](Len(stream.stack) <= 1)
    /\ [][(pc = "parse" /\ frames # <<>> /\ stream.stack # <<>>)
          => (/\ tok' = stream.stack[Len(stream.stack)]
              /\ stream'.stack = <<>>
              /\ stream'.scan = stream.scan)]_vars

C8_Witness ==
    /\ pc = "parse" /\ Len(frames) = 2 /\ Top(frames).at = "rsqb"
    /\ stream.stack = <<TA>>

\* C9 (as claimed): every token sequence derivable from the grammar is
\* parsed to the reference parser's left-associative tree.
C9_EveryDerivableSequenceParses ==
    Derivable(source[1].content)
    => /\ pc # "failed"
       /\ pc = "ready" => func.elts = <<Positioned(RefExpr(source[1].content, 1).node, 1)>>

\* C9 (amended): every token sequence derivable from the grammar whose
\* NUMBER tokens are decimal literals (digits, at most one decimal point)
\* is parsed, without failing or getting stuck, to the reference parser's
\* left-associative tree: each trailer wraps the node built so far, and a
\* bracketed key is a full expression with its own trailers.
C9_DerivableDecimalSequenceParses ==
    (Derivable(source[1].content) /\ DecimalNumbers(source[1].content))
    => /\ pc # "failed"
       /\ pc = "parse" => ENABLED NextParse
       /\ pc = "ready" => func.elts = <<Positioned(RefExpr(source[1].content, 1).node, 1)>>

C9_Witness ==
    /\ pc = "ready"
    /\ Derivable(source[1].content)
    /\ KeyDepth(func.elts[1].code) = 2
    /\ func.elts[1].code.value.k = "Subscript"

\* C10: when a VAR span's content is a valid expression followed by a token
\* that is not '.', '[' or the end-marker, compilation succeeds, the plan
\* holds exactly the node of the valid prefix, the offending token is left
\* pending in the span's TokenStream, and the scanner is never advanced
\* past it: no later token is read.
C10_TrailingTokensIgnored ==
    ValidThenOther(source[1].content)
    => LET r == RefExpr(source[1].content, 1)
       IN  /\ pc # "failed"
           /\ stream.scan.pos <= r.next + 1
           /\ ~stream.scan.done
           /\ pc = "ready"
              => /\ func.elts = <<Positioned(r.node, 1)>>
                 /\ stream.stack = <<source[1].content[r.next]>>
                 /\ stream.scan.pos = r.next + 1

C10_Witness ==
    /\ pc = "ready"
    /\ ValidThenOther(source[1].content)
    /\ RefExpr(source[1].content, 1).next < Len(source[1].content)
    /\ func.elts[1].code.k = "Subscript" /\ func.elts[1].code.value.k = "Subscript"

----------------------------------------------------------------------------
(* Inputs of compile and render *)

VarContents ==
    { <<TA>>,
      <<TA, TDot, TB>>,
      <<TA, TLsqb, TB, TRsqb>>,
      <<TA, TLsqb, TB, TLsqb, TZero, TRsqb, TRsqb>>,
      <<TA, TLsqb, StringTok(<<"'", "b", "'">>), TRsqb>>,
      <<NumberTok(<<"0", "7">>)>>,
      <<TFloat>>,
      <<TStr>>,
      <<TA, TB>>,
      <<TA, TLsqb>>,
      <<TA, TDot>>,
      <<TLsqb, TA, TRsqb>> }

SpanChoices ==
    {Span("VAR", c) : c \in VarContents}
    \cup { TextSpan("TEXT", <<"h", "i", " ">>),
           TextSpan("COMMENT", <<"n", "b">>),
           Span("BLOCK", <<NameTok(<<"i", "f">>), TA>>) }

Templates == SeqsUpTo(SpanChoices, MaxSpans)

KA == StrV(<<"a">>)
KB == StrV(<<"b">>)

Contexts ==
    { DictV(<<>>),
      DictV(<< <<KA, IntV(7)>> >>),
      DictV(<< <<KA, DictV(<<>>)>> >>),
      DictV(<< <<KA, DictV(<< <<KB, IntV(5)>> >>)>> >>),
      DictV(<< <<KA, ObjV(<< <<<<"b">>, IntV(5)>> >>)>> >>),
      DictV(<< <<KA, ListV(<<IntV(10), IntV(20), IntV(30)>>)>>, <<KB, IntV(1)>> >>),
      DictV(<< <<KA, ListV(<<IntV(7)>>)>>, <<KB, ListV(<<IntV(0)>>)>> >>) }

(* Template(source), then render calls *)
Init ==
    /\ source \in Templates
    /\ pc = "parse"
    /\ idx = 1
    /\ steps = <<>>
    /\ content = <<>>
    /\ stream = NewStream
    /\ frames = <<>>
    /\ tok = NoTok
    /\ exc = NoExc
    /\ func = NoFunc
    /\ calls = <<>>

Next ==
    \/ NextParse
    \/ EmitText
    \/ SkipComment
    \/ BlockTag
    \/ \E c \in Contexts : Render(c)

Spec == Init /\ [][Next]_vars

----------------------------------------------------------------------------
(* Claims about compile and render, under Spec *)

\* what one span contributes to the output for context c, by the
\* specification: a TEXT span its content, a VAR span the textual form of
\* the value of its expression, any other span nothing
SpanValue(sp, c) == Eval(RefExpr(sp.content, 1).node, [context |-> c])

SpanOutput(sp, c) ==
    IF sp.mode = "TEXT" THEN sp.text
    ELSE IF sp.mode = "VAR" THEN StrOf(SpanValue(sp, c).v)
    ELSE <<>>

AllEvaluate(c) ==
    \A i \in 1..Len(source) :
        source[i].mode = "VAR" => SpanValue(source[i], c).raised = "none"

\* C1: for a template that compiled and a context in which every
\* expression evaluates, render returns the concatenation, in span order,
\* of each TEXT span's content and the textual form of each VAR span's
\* value, COMMENT spans contributing nothing; so a template of TEXT spans
\* only renders to its source text and an empty template to the empty string.
C1_RenderConcatenatesInOrder ==
    \A k \in 1..Len(calls) :
        AllEvaluate(calls[k].context)
        => calls[k].ret =
              [raised |-> "none",
               out |-> Concat([i \in 1..Len(source) |->
                                  SpanOutput(source[i], calls[k].context)])]

C1_Witness ==
    /\ Len(source) = 2 /\ source[1].mode = "TEXT" /\ source[2].mode = "VAR"
    /\ \E k \in 1..Len(calls) :
          calls[k].ret = [raised |-> "none", out |-> <<"h", "i", " ", "7">>]

\* C2: every render call returns what the same context yields on the
\* Template rendered for the first time, whatever calls came before (so two
\* contexts give the same pair of results in either order), and no step
\* taken once the Template exists changes its source or its compiled plan.
C2_RenderIndependentOfHistory ==
    /\ [](\A k \in 1..Len(calls) :
             calls[k].ret = RenderCall(func, <<>>, calls[k].context))
    /\ [][pc = "ready" => (pc' = "ready" /\ func' = func /\ source' = source)]_vars

C2_Witness ==
    /\ Len(calls) = 2
    /\ calls[1].ret.raised # "none"
    /\ calls[2].ret.raised = "none" /\ calls[2].ret.out = <<"5">>

IsMappingWith(v, key) ==
    v.t = "dict" /\ \E k \in 1..Len(v.kv) : v.kv[k][1] = key

\* C3 (as claimed): "{{ a.b }}" with a bound to a mapping that contains key
\* b renders the textual form of the mapping's value for b, and fails with
\* an attribute or key lookup error when the mapping has no b.
C3_MemberOfMappingRenders ==
    \A k \in 1..Len(calls) :
        LET a == Eval(ContextLookup(<<"a">>), [context |-> calls[k].context])
        IN  (source = <<Span("VAR", <<TA, TDot, TB>>)>> /\ a.raised = "none"
             /\ a.v.t = "dict")
            => IF IsMappingWith(a.v, KB)
               THEN calls[k].ret =
                       [raised |-> "none", out |-> StrOf(GetItem(a.v, KB, "").v)]
               ELSE calls[k].ret.raised \in {"AttributeError", "KeyError"}

HasAttribute(v, attr) ==
    v.t = "obj" /\ \E k \in 1..Len(v.attrs) : v.attrs[k][1] = attr

AttributeOf(v, attr) ==
    v.attrs[CHOOSE k \in 1..Len(v.attrs) : v.attrs[k][1] = attr][2]

\* C3 (amended): "{{ a.b }}" with a bound to an object that has an
\* attribute b renders the textual form of that attribute's value; when the
\* value bound to a has no attribute b -- as every mapping, whose keys are
\* not attributes, so {a: {b: 5}} too -- render fails with an attribute
\* lookup error.
C3_AttributeOfObjectRenders ==
    \A k \in 1..Len(calls) :
        LET a == Eval(ContextLookup(<<"a">>), [context |-> calls[k].context])
        IN  (source = <<Span("VAR", <<TA, TDot, TB>>)>> /\ a.raised = "none")
            => IF HasAttribute(a.v, <<"b">>)
               THEN calls[k].ret =
                       [raised |-> "none",
                        out |-> StrOf(AttributeOf(a.v, <<"b">>))]
               ELSE calls[k].ret = [raised |-> "AttributeError", origin |-> "attribute"]

C3_Witness ==
    /\ source = <<Span("VAR", <<TA, TDot, TB>>)>>
    /\ Len(calls) = 2
    /\ calls[1].context = DictV(<< <<KA, ObjV(<< <<<<"b">>, IntV(5)>> >>)>> >>)
    /\ calls[1].ret = [raised |-> "none", out |-> <<"5">>]
    /\ calls[2].context = DictV(<< <<KA, DictV(<< <<KB, IntV(5)>> >>)>> >>)
    /\ calls[2].ret.raised = "AttributeError"

\* the names a plan looks up in the context
RECURSIVE NamesOf(_)
NamesOf(n) ==
    IF n.k = "Subscript" /\ n.value = Name("context") THEN {n.slice.s}
    ELSE IF n.k = "Subscript" THEN NamesOf(n.value) \cup NamesOf(n.slice)
    ELSE IF n.k = "Attribute" THEN NamesOf(n.value)
    ELSE {}

PlanNames(f) == UNION {NamesOf(f.elts[i].code) : i \in 1..Len(f.elts)}

SomeNameAbsent(f, c) == \E nm \in PlanNames(f) : ~IsMappingWith(c, StrV(nm))

\* the plan's expressions are literals and bare names: no trailer
NoTrailers(f) ==
    \A i \in 1..Len(f.elts) :
        f.elts[i].code.k = "Subscript" => f.elts[i].code.value = Name("context")

\* the error of a name that the context does not hold
IsNotFound(r) == r.raised = "KeyError" /\ r.origin = "context"

====
